---- MODULE Spec2Model ----
(***************************************************************************)
(* A model of gidari's transport.Upsert pipeline (orchestrator, web        *)
(* workers, repository workers), of the storage.Txn multiplexer and of the *)
(* timeseries planner.                                                     *)
(*                                                                         *)
(* Go pointers are modelled as sequences of length at most one: <<>> is    *)
(* the nil pointer and <<v>> points at v.  Durations and instants are      *)
(* integers; Second is the number of duration units in one second.         *)
(***************************************************************************)
EXTENDS Integers, Sequences, FiniteSets, TLC

\* ------------------------------------------------------------------ bounds
\* Number of cores reported by runtime.NumCPU(): size of both worker pools.
NumCPU == 2
\* Largest number of entries of Config.DNSList.
MaxBackends == 2
\* Capacity of a transaction's submission channel.
TxChCap == 2
\* Largest instant and largest chunk period drawn by the planner specification.
MaxTime == 4
MaxPeriod == 3
\* Largest burst, last clock value and most HTTP calls of the limiter specification.
MaxBurst == 2
MaxClock == 4
MaxCalls == 6
\* Duration units per second (time.Second), scaled down.
Second == 2
\* Seconds per day, scaled down.
DayLen == 2
\* Functions a client sends to one transaction.
MaxOps == 3

\* ------------------------------------------------------------- primitives
Null == <<>>
Ptr(v) == <<v>>
IsNil(p) == p = <<>>
Deref(p) == p[1]

NoErr == [err |-> "nil", cause |-> ""]
Err(e, c) == [err |-> e, cause |-> c]
NotReturned == [err |-> "-", cause |-> ""]

\* MissingConfigFieldError(field)
MissingConfigFieldError(field) == Err("ErrMissingConfigField", field)
\* MissingRateLimitFieldError(field)
MissingRateLimitFieldError(field) == Err("ErrMissingRateLimitField", field)
\* MissingTimeseriesFieldError(field)
MissingTimeseriesFieldError(field) == Err("ErrMissingTimeseriesField", field)
\* UnableToParseError(name)
UnableToParseError(name) == Err("ErrUnableToParse", name)
ErrInvalidRateLimit == Err("ErrInvalidRateLimit", "")
ErrSettingTimeseriesChunks == Err("ErrSettingTimeseriesChunks", "")
ErrFetchingTimeseriesChunks == Err("ErrFetchingTimeseriesChunks", "")

\* ------------------------------------------------------------------ times
\* A timestamp string is the layout it is written in and the instant it
\* denotes.  time.Parse succeeds only on a string written in the layout.
RFC3339 == "2006-01-02T15:04:05Z07:00"
DateOnly == "2006-01-02"
TimeStr(layout, t) == [lay |-> layout, t |-> t]
ParseOK(layout, s) == s.lay = layout
ParseTime(layout, s) == s.t
\* Time.Format writes the instant at the layout's resolution: a date-only
\* layout drops the time of day.
Granularity(layout) == IF layout = DateOnly THEN DayLen ELSE 1
Format(layout, t) == TimeStr(layout, t - (t % Granularity(layout)))

\* -------------------------------------------------------- timeseries.setChunks
RECURSIVE chunkLoopUnclipped(_, _, _)
\* The loop of setChunks without the clipping of the last chunk at end.
chunkLoopUnclipped(start, end, period) ==
    IF start < end
    THEN <<<<start, start + period>>>> \o chunkLoopUnclipped(start + period, end, period)
    ELSE <<>>

RECURSIVE chunkLoopInclusive(_, _, _)
\* The loop of setChunks running while start is not after end.
chunkLoopInclusive(start, end, period) ==
    IF start <= end
    THEN LET next == start + period
         IN  <<IF next < end THEN <<start, next>> ELSE <<start, end>>>>
                 \o chunkLoopInclusive(next, end, period)
    ELSE <<>>

RECURSIVE chunkLoop(_, _, _)
\* The loop of setChunks: for start.Before(end) { ... }
chunkLoop(start, end, period) ==
    IF start < end
    THEN LET next == start + period
         IN  <<IF next < end THEN <<start, next>> ELSE <<start, end>>>>
                 \o chunkLoop(next, end, period)
    ELSE <<>>

\* url.Values lookup: the slice of values under a name, empty when absent.
Values(query, name) == IF name \in DOMAIN query THEN query[name] ELSE <<>>

\* setChunks(url): the error returned and the timeseries as it is left.
setChunks(ts, query) ==
    LET lts == IF IsNil(ts.Layout) THEN [ts EXCEPT !.Layout = Ptr(RFC3339)] ELSE ts
        layout == Deref(lts.Layout)
        startSlice == Values(query, lts.StartName)
        endSlice == Values(query, lts.EndName)
    IN  IF Len(startSlice) # 1
        THEN [err |-> MissingTimeseriesFieldError("startName"), ts |-> lts]
        ELSE IF ~ParseOK(layout, startSlice[1])
        THEN [err |-> UnableToParseError("startTime"), ts |-> lts]
        ELSE IF Len(endSlice) # 1
        THEN [err |-> MissingTimeseriesFieldError("endName"), ts |-> lts]
        ELSE IF ~ParseOK(layout, endSlice[1])
        THEN [err |-> UnableToParseError("endTime"), ts |-> lts]
        ELSE [err |-> NoErr,
              ts |-> [lts EXCEPT !.chunks =
                         @ \o chunkLoop(ParseTime(layout, startSlice[1]),
                                        ParseTime(layout, endSlice[1]),
                                        lts.Period)]]

\* ------------------------------------------------------------ configuration
StartName == "start"
EndName == "end"

\* The timeseries block of a request as the configuration file gives it:
\* chunks is unexported and starts empty.
Timeseries(period, layout) ==
    [StartName |-> StartName, EndName |-> EndName, Period |-> period,
     Layout |-> layout, chunks |-> <<>>]

\* The query string of an endpoint giving start and end once each.
Window(layout, a, b) ==
    (StartName :> <<TimeStr(layout, a)>>) @@ (EndName :> <<TimeStr(layout, b)>>)

\* A request's query mapping giving start and end.
WindowMap(layout, a, b) ==
    (StartName :> TimeStr(layout, a)) @@ (EndName :> TimeStr(layout, b))

NewRequest(endpoint, query, ts, table) ==
    [Method |-> "", Endpoint |-> endpoint, Query |-> query,
     Timeseries |-> ts, Table |-> table]

NoQuery == [n \in {} |-> <<>>]

\* A request without timeseries, writing to table "a".
ReqPlain == NewRequest(NoQuery, Null, Null, Ptr("a"))
\* A timeseries request of two chunks whose window is in its query mapping.
ReqSeries ==
    NewRequest(NoQuery,
               Ptr((StartName :> TimeStr(RFC3339, 0)) @@ (EndName :> TimeStr(RFC3339, 2))),
               Ptr(Timeseries(1, Null)), Ptr("b"))
\* The same window given as query parameters of the endpoint only: the
\* request has no query mapping.
ReqSeriesEndpoint ==
    NewRequest(Window(RFC3339, 0, 2), Null, Ptr(Timeseries(1, Null)), Ptr("b"))
\* A window written in RFC3339 under a date-only layout.
ReqSeriesBadLayout ==
    NewRequest(NoQuery, Ptr(WindowMap(RFC3339, 0, 2)),
               Ptr(Timeseries(1, Ptr(DateOnly))), Ptr("a"))
\* A window with start >= end.
ReqSeriesEmpty ==
    NewRequest(NoQuery, Ptr(WindowMap(RFC3339, 2, 2)), Ptr(Timeseries(1, Null)), Null)

RequestLists ==
    { <<>>, <<ReqPlain>>, <<ReqSeries>>, <<ReqPlain, ReqPlain>>,
      <<ReqSeriesEndpoint>>, <<ReqPlain, ReqSeriesBadLayout>>, <<ReqSeriesEmpty>>,
      <<ReqSeriesEmpty, ReqPlain>> }

RateLimit(burst, period) == [Burst |-> burst, Period |-> period]
ValidRateLimit == Ptr(RateLimit(Ptr(1), Ptr(Second)))
RateLimitConfigs ==
    { Null,
      Ptr(RateLimit(Null, Ptr(Second))),
      Ptr(RateLimit(Ptr(1), Null)),
      Ptr(RateLimit(Ptr(0), Ptr(Second))),
      Ptr(RateLimit(Ptr(1), Ptr(0))),
      ValidRateLimit }

\* Config.Authentication: which of APIKey / Auth2 is set.
Authentications == {"none", "apiKey", "auth2"}
URLs == {"https://api.test", ":bad"}
\* url.JoinPath / url.Parse fail on a base URL that does not parse.
URLParses(u) == u # ":bad"

\* The configurations a run draws from: every rate limit, authentication,
\* backend count, request list and truncate flag, varied around a base
\* configuration.
Configs ==
    { c \in [URL : URLs, Authentication : Authentications,
             DNSList : {[i \in 1..n |-> i] : n \in 0..MaxBackends},
             Requests : RequestLists, RateLimitConfig : RateLimitConfigs,
             Truncate : BOOLEAN] :
        /\ c.RateLimitConfig # ValidRateLimit
              => c.Requests = <<ReqPlain>> /\ Len(c.DNSList) = 1 /\ ~c.Truncate
        /\ c.Authentication # "apiKey"
              => c.Requests = <<ReqPlain>> /\ Len(c.DNSList) = 1 /\ ~c.Truncate
        /\ c.URL # "https://api.test" => c.Requests = <<ReqPlain>> /\ ~c.Truncate }

\* --------------------------------------------------------------- validation
\* RateLimitConfig.validate
rateLimitValidate(rl) ==
    IF IsNil(rl.Burst) THEN MissingRateLimitFieldError("burst")
    ELSE IF IsNil(rl.Period) THEN MissingRateLimitFieldError("period")
    ELSE NoErr

\* Config.validate reporting a nil rate limit as an invalid one.
validateWrongError(c) ==
    IF IsNil(c.RateLimitConfig) THEN ErrInvalidRateLimit
    ELSE IF rateLimitValidate(Deref(c.RateLimitConfig)) # NoErr THEN ErrInvalidRateLimit
    ELSE NoErr

\* Config.validate
validate(c) ==
    IF IsNil(c.RateLimitConfig) THEN MissingConfigFieldError("rateLimit")
    ELSE IF rateLimitValidate(Deref(c.RateLimitConfig)) # NoErr THEN ErrInvalidRateLimit
    ELSE NoErr

\* ------------------------------------------------------------- rate limiter
\* rate.NewLimiter(rate.Every(*Period / time.Second), *Burst): the limiter
\* refills one token every `interval` duration units, up to `burst` tokens;
\* rate.Every of an interval <= 0 is rate.Inf (interval 0 here).
NewLimiter(rl) ==
    LET rateLimitPeriodS == Deref(rl.Period) \div Second
    IN  [interval |-> IF rateLimitPeriodS <= 0 THEN 0 ELSE rateLimitPeriodS,
         burst |-> Deref(rl.Burst)]

\* Limiter.Wait(ctx) fails at once when one token exceeds the burst of a
\* finite limiter.
WaitFails(lim) == lim.interval > 0 /\ lim.burst < 1

\* ----------------------------------------------------------------- planning
\* url.JoinPath(cfg.URL, req.Endpoint) and url.Parse of the result: JoinPath
\* joins the endpoint to the base URL's path as path elements and escapes
\* the path, "?" included, so the query parameters an endpoint is written
\* with end up in the path and the joined URL has no query.
JoinPath(u, endpoint) == [Path |-> endpoint, Query |-> NoQuery]

\* newFetchConfig: the request's query mapping overlaid on the joined URL's
\* query. URL is the query of FetchConfig.URL, Path its path.
newFetchConfig(c, req) ==
    IF ~URLParses(c.URL)
    THEN [err |-> Err("error joining url", c.URL), fc |-> Null]
    ELSE LET uri == JoinPath(c.URL, req.Endpoint)
             q == IF IsNil(req.Query) THEN uri.Query
                  ELSE LET m == Deref(req.Query)
                       IN  [n \in DOMAIN uri.Query \cup DOMAIN m |->
                               IF n \in DOMAIN m THEN <<m[n]>> ELSE uri.Query[n]]
         IN  [err |-> NoErr,
              fc |-> Ptr([Method |-> req.Method, Path |-> uri.Path, URL |-> q])]

\* map assignment m[name] = value
MapSet(m, name, value) ==
    [n \in DOMAIN m \cup {name} |-> IF n = name THEN value ELSE m[n]]

RECURSIVE expandChunks(_, _, _, _)
\* The loop over timeseries.chunks in Upsert, from chunk k on: chunkReq aliases
\* req, so each chunk's window is written into the one query mapping; writing
\* into a nil mapping panics.
expandChunks(c, req, k, acc) ==
    LET ts == Deref(req.Timeseries)
    IN  IF k > Len(ts.chunks) THEN [status |-> "ok", req |-> req, flat |-> acc]
        ELSE IF IsNil(req.Query) THEN [status |-> "panic", req |-> req, flat |-> acc]
        ELSE LET layout == Deref(ts.Layout)
                 q1 == MapSet(Deref(req.Query), ts.StartName, Format(layout, ts.chunks[k][1]))
                 q2 == MapSet(q1, ts.EndName, Format(layout, ts.chunks[k][2]))
                 chunkReq == [req EXCEPT !.Query = Ptr(q2)]
                 built == newFetchConfig(c, chunkReq)
             IN  IF built.err # NoErr
                 THEN [status |-> "err", req |-> chunkReq, flat |-> acc]
                 ELSE expandChunks(c, chunkReq, k + 1,
                          Append(acc, [fetchConfig |-> Deref(built.fc), table |-> req.Table]))

\* One iteration of Upsert's loop over cfg.Requests: the request as it is
\* left, the flattened requests and the truncate tables it adds.
planRequest(c, req0) ==
    LET req == IF req0.Method = "" THEN [req0 EXCEPT !.Method = "GET"] ELSE req0
        built == newFetchConfig(c, req)
        tables == IF IsNil(req.Table) THEN <<>> ELSE <<Deref(req.Table)>>
    IN  IF built.err # NoErr
        THEN [status |-> "err", err |-> built.err, req |-> req, flat |-> <<>>, tables |-> <<>>]
        ELSE IF IsNil(req.Timeseries)
        THEN [status |-> "ok", err |-> NoErr, req |-> req,
              flat |-> <<[fetchConfig |-> Deref(built.fc), table |-> req.Table]>>,
              tables |-> tables]
        ELSE LET set == setChunks(Deref(req.Timeseries), Deref(built.fc).URL)
                 req1 == [req EXCEPT !.Timeseries = Ptr(set.ts)]
             IN  IF set.err # NoErr
                 THEN [status |-> "err", err |-> ErrSettingTimeseriesChunks, req |-> req1,
                       flat |-> <<>>, tables |-> <<>>]
                 ELSE LET ex == expandChunks(c, req1, 1, <<>>)
                      IN  [status |-> ex.status,
                           err |-> IF ex.status = "err" THEN ErrFetchingTimeseriesChunks
                                   ELSE NoErr,
                           req |-> ex.req, flat |-> ex.flat,
                           tables |-> IF ex.status = "ok" THEN tables ELSE <<>>]

\* -------------------------------------------------------------------- state
VARIABLES
    cfg,               \* the *Config handed to Upsert (planning writes into its requests)
    pc,                \* where Upsert is
    ret,               \* Upsert's return value, NotReturned until it returns
    alive,             \* FALSE once logger.Fatal or a panic has ended the process
    i,                 \* index of the loop Upsert is in
    client,            \* the *web.Client of connect, nil until connected
    newClientCalls,    \* calls of web.NewClient
    repos,             \* the repositories opened by cfg.repos
    rateLimiter,       \* the shared *rate.Limiter, nil until built
    flattenedRequests, \* the planned requests
    truncateTables,    \* truncateRequest.Tables
    truncated,         \* per backend, the table lists its Truncate was called with
    started,           \* TRUE once the worker pools are running
    webWorkerJobs,     \* channel of web jobs (indices into flattenedRequests)
    repoJobCh,         \* channel of repository jobs
    done,              \* repoWorkerCfg.done
    web,               \* web workers: pc and current job
    repo,              \* repository workers: pc, current job, index into repos
    tx,                \* per backend, its storage.Txn: ch, closed, commit, done, state
    driver,            \* per backend, where its driver loop is
    fetchCalls,        \* per job, calls of web.Fetch
    responses,         \* per job, responses read
    encoded,           \* per job, Encode calls that succeeded
    signalled,         \* per job, writes to done
    submitted,         \* per backend, the jobs sent on its transaction, in order
    executed,          \* per backend, the jobs whose upsert ran on its session, in order
    commitCalls,       \* per backend, calls of Commit
    rollbackCalls,     \* per backend, calls of Rollback
    now,               \* the clock, in duration units
    tokens,            \* tokens in the limiter's bucket
    sinceToken,        \* duration units elapsed towards the next token
    issuedAt,          \* the instants at which HTTP calls were issued
    cfg0,              \* the configuration as the caller passed it to Upsert
    cancelled,         \* ctx.Done() is closed
    earlier            \* the flattened requests of an earlier Upsert on this Config, nil if none

orchVars == <<cfg, pc, ret, i, client, newClientCalls, repos, rateLimiter,
              flattenedRequests, truncateTables, truncated, started>>
chanVars == <<webWorkerJobs, repoJobCh, done>>
workerVars == <<web, repo>>
txVars == <<tx, driver, commitCalls, rollbackCalls>>
logVars == <<fetchCalls, responses, encoded, signalled, submitted, executed>>
limiterVars == <<now, tokens, sinceToken, issuedAt>>
ctxVars == <<cfg0, cancelled, earlier>>
vars == <<orchVars, alive, chanVars, workerVars, txVars, logVars, limiterVars, ctxVars>>

Backends == 1..Len(cfg.DNSList)
Workers == 1..NumCPU
Jobs == 1..Len(flattenedRequests)

\* A storage.Txn before repository.NewTx has opened it.
NoTxn == [opened |-> FALSE, ch |-> <<>>, closed |-> FALSE, commit |-> <<>>,
          done |-> <<>>, state |-> "none"]

Init ==
    /\ cfg \in Configs
    /\ pc = "validate"
    /\ ret = NotReturned
    /\ alive = TRUE
    /\ i = 1
    /\ client = Null
    /\ newClientCalls = 0
    /\ repos = <<>>
    /\ rateLimiter = Null
    /\ flattenedRequests = <<>>
    /\ truncateTables = <<>>
    /\ truncated = [b \in Backends |-> <<>>]
    /\ started = FALSE
    /\ webWorkerJobs = <<>>
    /\ repoJobCh = <<>>
    /\ done = <<>>
    /\ web = [w \in Workers |-> [pc |-> "idle", job |-> 0]]
    /\ repo = [w \in Workers |-> [pc |-> "idle", job |-> 0, k |-> 0]]
    /\ tx = [b \in Backends |-> NoTxn]
    /\ driver = [b \in Backends |-> "idle"]
    /\ fetchCalls = <<>>
    /\ responses = <<>>
    /\ encoded = <<>>
    /\ signalled = <<>>
    /\ submitted = [b \in Backends |-> <<>>]
    /\ executed = [b \in Backends |-> <<>>]
    /\ commitCalls = [b \in Backends |-> 0]
    /\ rollbackCalls = [b \in Backends |-> 0]
    /\ now = 0
    /\ tokens = 0
    /\ sinceToken = 0
    /\ issuedAt = <<>>
    /\ cfg0 = cfg
    /\ cancelled = FALSE
    /\ earlier = Null

\* return err
Return(err) == pc' = "returned" /\ ret' = err

\* ------------------------------------------------------------------- Upsert
\* err := cfg.validate(); if err != nil { return err }
UpsertValidate ==
    /\ alive /\ pc = "validate"
    /\ IF validate(cfg) # NoErr
       THEN Return(validate(cfg))
       ELSE pc' = "connect" /\ ret' = ret
    /\ UNCHANGED <<cfg, i, client, newClientCalls, repos, rateLimiter, flattenedRequests,
                   truncateTables, truncated, started>>
    /\ UNCHANGED <<alive, chanVars, workerVars, txVars, logVars>>
    /\ UNCHANGED limiterVars
    /\ UNCHANGED ctxVars

\* client, err := cfg.connect(ctx): web.NewClient is called when an
\* authentication is configured, and may fail.
UpsertConnect ==
    /\ alive /\ pc = "connect"
    /\ IF cfg.Authentication = "none"
       THEN pc' = "repos" /\ UNCHANGED <<ret, client, newClientCalls>>
       ELSE /\ newClientCalls' = newClientCalls + 1
            /\ \E ok \in BOOLEAN :
                  IF ok
                  THEN client' = Ptr(cfg.Authentication) /\ pc' = "repos" /\ ret' = ret
                  ELSE client' = client
                       /\ Return(Err("unable to connect to client", "web"))
    /\ i' = 1
    /\ UNCHANGED <<cfg, repos, rateLimiter, flattenedRequests, truncateTables, truncated,
                   started>>
    /\ UNCHANGED <<alive, chanVars, workerVars, txVars, logVars>>
    /\ UNCHANGED limiterVars
    /\ UNCHANGED ctxVars

\* A storage.Txn as repository.NewTx opens it.
OpenTxn == [opened |-> TRUE, ch |-> <<>>, closed |-> FALSE, commit |-> <<>>,
            done |-> <<>>, state |-> "open"]

\* repos, err := cfg.repos(ctx): one repository.NewTx per DNS entry, in order;
\* the first failure returns, leaving the repositories opened so far as they are.
UpsertRepos ==
    /\ alive /\ pc = "repos"
    /\ IF i > Len(cfg.DNSList)
       THEN pc' = "limiter" /\ UNCHANGED <<ret, repos, tx, driver, i>>
       ELSE \E ok \in BOOLEAN :
              IF ok
              THEN /\ tx' = [tx EXCEPT ![cfg.DNSList[i]] = OpenTxn]
                   /\ driver' = [driver EXCEPT ![cfg.DNSList[i]] = "run"]
                   /\ repos' = Append(repos, cfg.DNSList[i])
                   /\ i' = i + 1
                   /\ UNCHANGED <<pc, ret>>
              ELSE /\ Return(Err("repository", "FailedToCreateRepository"))
                   /\ repos' = <<>>
                   /\ UNCHANGED <<tx, driver, i>>
    /\ UNCHANGED <<cfg, client, newClientCalls, rateLimiter, flattenedRequests,
                   truncateTables, truncated, started>>
    /\ UNCHANGED <<alive, chanVars, workerVars, commitCalls, rollbackCalls, logVars>>
    /\ UNCHANGED limiterVars
    /\ UNCHANGED ctxVars

\* rateLimiter := rate.NewLimiter(rate.Every(rateLimitPeriodS), *Burst)
UpsertLimiter ==
    /\ alive /\ pc = "limiter"
    /\ rateLimiter' = Ptr(NewLimiter(Deref(cfg.RateLimitConfig)))
    /\ pc' = "plan"
    /\ i' = 1
    /\ UNCHANGED <<cfg, ret, client, newClientCalls, repos, flattenedRequests,
                   truncateTables, truncated, started>>
    /\ UNCHANGED <<alive, chanVars, workerVars, txVars, logVars>>
    /\ UNCHANGED limiterVars
    /\ UNCHANGED ctxVars

\* Upsert starting its pools without the truncate step.
afterPlanNoTruncate(c) == "start"

\* Where Upsert goes once every request is planned.
afterPlan(c) == IF c.Truncate THEN "truncate" ELSE "start"

\* for _, req := range cfg.Requests { ... }
UpsertPlan ==
    /\ pc = "plan" /\ alive
    /\ IF i > Len(cfg.Requests)
       THEN /\ pc' = afterPlan(cfg)
            /\ i' = 1
            /\ UNCHANGED <<cfg, ret, alive, flattenedRequests, truncateTables>>
       ELSE LET p == planRequest(cfg, cfg.Requests[i])
            IN  /\ cfg' = [cfg EXCEPT !.Requests[i] = p.req]
                /\ flattenedRequests' = flattenedRequests \o p.flat
                /\ truncateTables' = truncateTables \o p.tables
                /\ alive' = (p.status # "panic")
                /\ IF p.status = "err"
                   THEN Return(p.err) /\ i' = i
                   ELSE IF p.status = "panic"
                   THEN UNCHANGED <<pc, ret, i>>
                   ELSE i' = i + 1 /\ UNCHANGED <<pc, ret>>
    /\ UNCHANGED <<client, newClientCalls, repos, rateLimiter, truncated, started>>
    /\ UNCHANGED <<chanVars, workerVars, txVars, logVars>>
    /\ UNCHANGED limiterVars
    /\ UNCHANGED ctxVars

\* if cfg.Truncate { for _, repo := range repos { repo.Truncate(...) } }
UpsertTruncate ==
    /\ alive /\ pc = "truncate"
    /\ IF i > Len(repos)
       THEN pc' = "start" /\ UNCHANGED <<ret, i, truncated>>
       ELSE \E ok \in BOOLEAN :
              IF ok
              THEN /\ truncated' = [truncated EXCEPT ![repos[i]] = Append(@, truncateTables)]
                   /\ i' = i + 1
                   /\ UNCHANGED <<pc, ret>>
              ELSE /\ Return(Err("unable to truncate tables", "Truncate"))
                   /\ UNCHANGED <<i, truncated>>
    /\ UNCHANGED <<cfg, client, newClientCalls, repos, rateLimiter, flattenedRequests,
                   truncateTables, started>>
    /\ UNCHANGED <<alive, chanVars, workerVars, txVars, logVars>>
    /\ UNCHANGED limiterVars
    /\ UNCHANGED ctxVars

\* Channel capacities as Upsert makes them.
repoJobChCap == Len(flattenedRequests) * Len(repos)
doneCap == Len(flattenedRequests)
webWorkerJobsCap == Len(cfg.Requests)

\* The channels are made and both pools are started: every worker ranges
\* over its (still empty) channel.
UpsertStart ==
    /\ alive /\ pc = "start"
    /\ started' = TRUE
    /\ web' = [w \in Workers |-> [pc |-> "recv", job |-> 0]]
    /\ repo' = [w \in Workers |-> [pc |-> "recv", job |-> 0, k |-> 0]]
    /\ fetchCalls' = [j \in Jobs |-> 0]
    /\ responses' = [j \in Jobs |-> 0]
    /\ encoded' = [j \in Jobs |-> 0]
    /\ signalled' = [j \in Jobs |-> 0]
    /\ pc' = "enqueue"
    /\ i' = 1
    /\ UNCHANGED <<cfg, ret, client, newClientCalls, repos, rateLimiter, flattenedRequests,
                   truncateTables, truncated>>
    /\ UNCHANGED <<alive, chanVars, txVars, submitted, executed>>
    /\ UNCHANGED limiterVars
    /\ UNCHANGED ctxVars

\* for _, req := range flattenedRequests { webWorkerJobs <- ... }
UpsertEnqueue ==
    /\ alive /\ pc = "enqueue"
    /\ IF i > Len(flattenedRequests)
       THEN pc' = "await" /\ i' = 1 /\ UNCHANGED webWorkerJobs
       ELSE /\ Len(webWorkerJobs) < webWorkerJobsCap
            /\ webWorkerJobs' = Append(webWorkerJobs, i)
            /\ i' = i + 1
            /\ pc' = pc
    /\ UNCHANGED <<cfg, ret, client, newClientCalls, repos, rateLimiter, flattenedRequests,
                   truncateTables, truncated, started>>
    /\ UNCHANGED <<alive, repoJobCh, done, workerVars, txVars, logVars>>
    /\ UNCHANGED limiterVars
    /\ UNCHANGED ctxVars

\* The await loop stopping one completion short.
awaitMoreShort(a, n) == a < n

\* No await loop at all: Upsert commits as soon as it has enqueued.
awaitMoreNone(a, n) == FALSE

\* The await loop taking one completion more than there are requests.
awaitMoreExtra(a, n) == a <= n + 1

\* The loop test of: for a := 1; a <= len(flattenedRequests); a++
awaitMore(a, n) == a <= n

\* for a := 1; a <= len(flattenedRequests); a++ { <-repoWorkerCfg.done }
UpsertAwait ==
    /\ alive /\ pc = "await"
    /\ IF awaitMore(i, Len(flattenedRequests))
       THEN /\ Len(done) > 0
            /\ done' = Tail(done)
            /\ i' = i + 1
            /\ pc' = pc
       ELSE pc' = "commit" /\ i' = 1 /\ UNCHANGED done
    /\ UNCHANGED <<cfg, ret, client, newClientCalls, repos, rateLimiter, flattenedRequests,
                   truncateTables, truncated, started>>
    /\ UNCHANGED <<alive, webWorkerJobs, repoJobCh, workerVars, txVars, logVars>>
    /\ UNCHANGED limiterVars
    /\ UNCHANGED ctxVars

\* ---------------------------------------------------------------- Txn.Commit
\* for _, repo := range repos { repo.Commit() ... }; return nil.
\* Commit begins with close(txn.ch).
UpsertCommit ==
    /\ alive /\ pc = "commit"
    /\ IF i > Len(repos)
       THEN Return(NoErr) /\ UNCHANGED <<tx, commitCalls>>
       ELSE /\ tx' = [tx EXCEPT ![repos[i]].closed = TRUE, ![repos[i]].state = "closing"]
            /\ commitCalls' = [commitCalls EXCEPT ![repos[i]] = @ + 1]
            /\ pc' = "commitSignal"
            /\ ret' = ret
    /\ UNCHANGED <<cfg, i, client, newClientCalls, repos, rateLimiter, flattenedRequests,
                   truncateTables, truncated, started>>
    /\ UNCHANGED <<alive, chanVars, workerVars, driver, rollbackCalls, logVars>>
    /\ UNCHANGED limiterVars
    /\ UNCHANGED ctxVars

\* txn.commit <- true
CommitSignal ==
    /\ alive /\ pc = "commitSignal"
    /\ tx[repos[i]].commit = <<>>
    /\ tx' = [tx EXCEPT ![repos[i]].commit = <<TRUE>>]
    /\ pc' = "commitWait"
    /\ UNCHANGED <<cfg, ret, i, client, newClientCalls, repos, rateLimiter,
                   flattenedRequests, truncateTables, truncated, started>>
    /\ UNCHANGED <<alive, chanVars, workerVars, driver, commitCalls, rollbackCalls, logVars>>
    /\ UNCHANGED limiterVars
    /\ UNCHANGED ctxVars

\* Upsert going on to the next backend whatever Commit returned.
afterCommitIgnored(err) == "commit"

\* Where Upsert goes after repo.Commit() has returned err.
afterCommit(err) == IF err # NoErr THEN "returned" ELSE "commit"

\* return <-txn.done, and Upsert's test of the error
CommitWait ==
    /\ alive /\ pc = "commitWait"
    /\ tx[repos[i]].done # <<>>
    /\ LET err == Head(tx[repos[i]].done)
       IN  /\ pc' = afterCommit(err)
           /\ ret' = IF afterCommit(err) = "returned"
                     THEN Err("unable to commit transaction", err.cause)
                     ELSE ret
    /\ tx' = [tx EXCEPT ![repos[i]].done = <<>>]
    /\ i' = i + 1
    /\ UNCHANGED <<cfg, client, newClientCalls, repos, rateLimiter, flattenedRequests,
                   truncateTables, truncated, started>>
    /\ UNCHANGED <<alive, chanVars, workerVars, driver, commitCalls, rollbackCalls, logVars>>
    /\ UNCHANGED limiterVars
    /\ UNCHANGED ctxVars

\* ---------------------------------------------------------------- webWorker
\* for job := range jobs
WebRecv(w) ==
    /\ alive /\ web[w].pc = "recv"
    /\ Len(webWorkerJobs) > 0
    /\ web' = [web EXCEPT ![w] = [pc |-> "fetch", job |-> Head(webWorkerJobs)]]
    /\ webWorkerJobs' = Tail(webWorkerJobs)
    /\ UNCHANGED <<orchVars, alive, repoJobCh, done, repo, txVars, logVars>>
    /\ UNCHANGED limiterVars
    /\ UNCHANGED ctxVars

\* rsp, err := web.Fetch(ctx, job.fetchConfig) and io.ReadAll(rsp.Body): an
\* error is logged with logger.Fatal, which exits the process. A fetch under
\* a cancelled context returns the context's error.
WebFetch(w) ==
    /\ alive /\ web[w].pc = "fetch"
    /\ fetchCalls' = [fetchCalls EXCEPT ![web[w].job] = @ + 1]
    /\ \E ok \in BOOLEAN :
          IF ok /\ ~cancelled /\ ~WaitFails(Deref(rateLimiter))
          THEN /\ responses' = [responses EXCEPT ![web[w].job] = @ + 1]
               /\ web' = [web EXCEPT ![w].pc = "send"]
               /\ alive' = alive
          ELSE alive' = FALSE /\ UNCHANGED <<responses, web>>
    /\ UNCHANGED <<orchVars, chanVars, repo, txVars, encoded, signalled, submitted, executed>>
    /\ UNCHANGED limiterVars
    /\ UNCHANGED ctxVars

\* job.repoJobs <- &repoJob{...} on a buffered channel
WebSend(w) ==
    /\ alive /\ web[w].pc = "send"
    /\ Len(repoJobCh) < repoJobChCap
    /\ repoJobCh' = Append(repoJobCh, web[w].job)
    /\ web' = [web EXCEPT ![w] = [pc |-> "recv", job |-> 0]]
    /\ UNCHANGED <<orchVars, alive, webWorkerJobs, done, repo, txVars, logVars>>
    /\ UNCHANGED limiterVars
    /\ UNCHANGED ctxVars

\* job.repoJobs <- &repoJob{...} on a channel of capacity 0 (no backend): the
\* send completes together with the receive of a repository worker.
WebHandoff(w, r) ==
    /\ alive /\ web[w].pc = "send" /\ repo[r].pc = "recv"
    /\ repoJobChCap = 0
    /\ repo' = [repo EXCEPT ![r] = [pc |-> "encode", job |-> web[w].job, k |-> 0]]
    /\ web' = [web EXCEPT ![w] = [pc |-> "recv", job |-> 0]]
    /\ UNCHANGED <<orchVars, alive, chanVars, txVars, logVars>>
    /\ UNCHANGED limiterVars
    /\ UNCHANGED ctxVars

\* --------------------------------------------------------- repositoryWorker
\* for job := range cfg.jobs
RepoRecv(r) ==
    /\ alive /\ repo[r].pc = "recv"
    /\ Len(repoJobCh) > 0
    /\ repo' = [repo EXCEPT ![r] = [pc |-> "encode", job |-> Head(repoJobCh), k |-> 0]]
    /\ repoJobCh' = Tail(repoJobCh)
    /\ UNCHANGED <<orchVars, alive, webWorkerJobs, done, web, txVars, logVars>>
    /\ UNCHANGED limiterVars
    /\ UNCHANGED ctxVars

\* The loop over cfg.repos leaving out the last repository.
reposMoreShort(k, n) == k < n

\* The loop test of: for _, repo := range cfg.repos (k counts from 1)
reposMore(k, n) == k <= n

\* RepositoryEncoders.Lookup(job.req.URL).Encode(job.req, job.b): an error is
\* logged with logger.Fatalf, which exits the process.
RepoEncode(r) ==
    /\ alive /\ repo[r].pc = "encode"
    /\ \E ok \in BOOLEAN :
          IF ok
          THEN /\ encoded' = [encoded EXCEPT ![repo[r].job] = @ + 1]
               /\ repo' = [repo EXCEPT ![r].k = 1,
                                        ![r].pc = IF reposMore(1, Len(repos))
                                                  THEN "transact" ELSE "done"]
               /\ alive' = alive
          ELSE alive' = FALSE /\ UNCHANGED <<encoded, repo>>
    /\ UNCHANGED <<orchVars, chanVars, web, txVars, fetchCalls, responses, signalled,
                   submitted, executed>>
    /\ UNCHANGED limiterVars
    /\ UNCHANGED ctxVars

\* A submission put at the head of the channel.
SendFirst(ch, fn) == <<fn>> \o ch

\* Txn.Send: txn.ch <- fn
Send(ch, fn) == Append(ch, fn)

\* repo.Transact(txfn) for the k-th repository: blocks while the
\* transaction's channel is full (a send on a closed channel panics).
RepoTransact(r) ==
    /\ alive /\ repo[r].pc = "transact"
    /\ LET b == repos[repo[r].k]
       IN  /\ ~tx[b].closed
           /\ Len(tx[b].ch) < TxChCap
           /\ tx' = [tx EXCEPT ![b].ch = Send(@, repo[r].job)]
           /\ submitted' = [submitted EXCEPT ![b] = Append(@, repo[r].job)]
    /\ repo' = [repo EXCEPT ![r].k = @ + 1,
                             ![r].pc = IF reposMore(repo[r].k + 1, Len(repos))
                                       THEN "transact" ELSE "done"]
    /\ UNCHANGED <<orchVars, alive, chanVars, web, driver, commitCalls, rollbackCalls,
                   fetchCalls, responses, encoded, signalled, executed>>
    /\ UNCHANGED limiterVars
    /\ UNCHANGED ctxVars

\* cfg.done <- true
RepoDone(r) ==
    /\ alive /\ repo[r].pc = "done"
    /\ Len(done) < doneCap
    /\ done' = Append(done, repo[r].job)
    /\ signalled' = [signalled EXCEPT ![repo[r].job] = @ + 1]
    /\ repo' = [repo EXCEPT ![r] = [pc |-> "recv", job |-> 0, k |-> 0]]
    /\ UNCHANGED <<orchVars, alive, webWorkerJobs, repoJobCh, web, txVars, fetchCalls,
                   responses, encoded, submitted, executed>>
    /\ UNCHANGED limiterVars
    /\ UNCHANGED ctxVars

\* ------------------------------------------------------- transaction driver
\* The driver loop takes the next function from the submission channel and
\* runs it on the session; txfn logs a failed repo.Upsert with
\* logger.Fatalf, which exits the process.
DriverExec(b) ==
    /\ alive /\ driver[b] = "run"
    /\ tx[b].ch # <<>>
    /\ tx' = [tx EXCEPT ![b].ch = Tail(@)]
    /\ \E ok \in BOOLEAN :
          IF ok
          THEN executed' = [executed EXCEPT ![b] = Append(@, Head(tx[b].ch))]
               /\ alive' = alive
          ELSE alive' = FALSE /\ UNCHANGED executed
    /\ UNCHANGED <<orchVars, chanVars, workerVars, driver, commitCalls, rollbackCalls,
                   fetchCalls, responses, encoded, signalled, submitted>>
    /\ UNCHANGED limiterVars
    /\ UNCHANGED ctxVars

\* The submission channel is closed and drained: the driver awaits the
\* commit signal.
DriverClosed(b) ==
    /\ alive /\ driver[b] = "run"
    /\ tx[b].ch = <<>> /\ tx[b].closed
    /\ driver' = [driver EXCEPT ![b] = "awaitCommit"]
    /\ UNCHANGED <<orchVars, alive, chanVars, workerVars, tx, commitCalls, rollbackCalls,
                   logVars>>
    /\ UNCHANGED limiterVars
    /\ UNCHANGED ctxVars

\* The error a backend's failed commit reports.
CommitFailure(b) == Err("commit", ToString(b))

\* The driver takes the commit signal, commits (which the backend may
\* refuse) or aborts, and posts the final status on done.
DriverFinalize(b) ==
    /\ alive /\ driver[b] = "awaitCommit"
    /\ tx[b].commit # <<>>
    /\ \E ok \in BOOLEAN :
          tx' = [tx EXCEPT ![b].commit = <<>>,
                           ![b].state = IF ~Head(tx[b].commit) THEN "rolledBack"
                                        ELSE IF ok THEN "committed" ELSE "commitFailed",
                           ![b].done = IF ok \/ ~Head(tx[b].commit) THEN <<NoErr>>
                                       ELSE <<CommitFailure(b)>>]
    /\ driver' = [driver EXCEPT ![b] = "final"]
    /\ UNCHANGED <<orchVars, alive, chanVars, workerVars, commitCalls, rollbackCalls,
                   logVars>>
    /\ UNCHANGED limiterVars
    /\ UNCHANGED ctxVars

\* ------------------------------------------------------------ specification
Next ==
    \/ UpsertValidate
    \/ UpsertConnect
    \/ UpsertRepos
    \/ UpsertLimiter
    \/ UpsertPlan
    \/ UpsertTruncate
    \/ UpsertStart
    \/ UpsertEnqueue
    \/ UpsertAwait
    \/ UpsertCommit
    \/ CommitSignal
    \/ CommitWait
    \/ \E w \in Workers : WebRecv(w)
    \/ \E w \in Workers : WebFetch(w)
    \/ \E w \in Workers : WebSend(w)
    \/ \E w \in Workers, r \in Workers : WebHandoff(w, r)
    \/ \E r \in Workers : RepoRecv(r)
    \/ \E r \in Workers : RepoEncode(r)
    \/ \E r \in Workers : RepoTransact(r)
    \/ \E r \in Workers : RepoDone(r)
    \/ \E b \in Backends : DriverExec(b)
    \/ \E b \in Backends : DriverClosed(b)
    \/ \E b \in Backends : DriverFinalize(b)

Spec == Init /\ [][Next]_vars

\* ------------------------------------------------- planner specification
\* Upsert's planning loop run on one timeseries request, for every window
\* and period: the state is the one Upsert has built when it starts planning
\* (no authentication, no backend).
SeriesRequest(a, b, period) ==
    NewRequest(NoQuery, Ptr(WindowMap(RFC3339, a, b)), Ptr(Timeseries(period, Null)), Null)

PlanConfigs ==
    { [URL |-> "https://api.test", Authentication |-> "none", DNSList |-> <<>>,
       Requests |-> <<SeriesRequest(a, b, period)>>,
       RateLimitConfig |-> ValidRateLimit, Truncate |-> FALSE] :
         a \in 0..MaxTime, b \in 0..MaxTime, period \in 1..MaxPeriod }

\* Everything but cfg, pc, rateLimiter and the limiter's clock, as Upsert has
\* it before the pools start.
RestInit ==
    /\ ret = NotReturned /\ alive = TRUE /\ i = 1
    /\ client = Null /\ newClientCalls = 0 /\ repos = <<>>
    /\ flattenedRequests = <<>> /\ truncateTables = <<>>
    /\ truncated = [b \in Backends |-> <<>>]
    /\ started = FALSE
    /\ webWorkerJobs = <<>> /\ repoJobCh = <<>> /\ done = <<>>
    /\ web = [w \in Workers |-> [pc |-> "idle", job |-> 0]]
    /\ repo = [w \in Workers |-> [pc |-> "idle", job |-> 0, k |-> 0]]
    /\ tx = [b \in Backends |-> NoTxn]
    /\ driver = [b \in Backends |-> "idle"]
    /\ fetchCalls = <<>> /\ responses = <<>> /\ encoded = <<>> /\ signalled = <<>>
    /\ submitted = [b \in Backends |-> <<>>]
    /\ executed = [b \in Backends |-> <<>>]
    /\ commitCalls = [b \in Backends |-> 0]
    /\ rollbackCalls = [b \in Backends |-> 0]
    /\ cfg0 = cfg
    /\ cancelled = FALSE
    /\ earlier = Null

InitPlan ==
    /\ cfg \in PlanConfigs
    /\ pc = "plan"
    /\ rateLimiter = Ptr(NewLimiter(Deref(cfg.RateLimitConfig)))
    /\ RestInit
    /\ now = 0 /\ tokens = 0 /\ sinceToken = 0 /\ issuedAt = <<>>

NextPlan == UpsertPlan

SpecPlan == InitPlan /\ [][NextPlan]_vars

\* --------------------------------------------- repeated planning
\* The caller hands the same *Config to Upsert a second time: the planning
\* loop runs again on the requests as the first call left them, with fresh
\* local variables.
UpsertAgain ==
    /\ alive /\ pc = "start" /\ IsNil(earlier)
    /\ earlier' = Ptr(flattenedRequests)
    /\ pc' = "plan" /\ i' = 1
    /\ flattenedRequests' = <<>> /\ truncateTables' = <<>>
    /\ UNCHANGED <<cfg, ret, client, newClientCalls, repos, rateLimiter, truncated, started>>
    /\ UNCHANGED <<alive, chanVars, workerVars, txVars, logVars, limiterVars, cfg0, cancelled>>

NextReplan == UpsertPlan \/ UpsertAgain

SpecReplan == InitPlan /\ [][NextReplan]_vars

\* ------------------------------------------------- limiter specification
\* The limiter Upsert builds, with the clock: web workers that always have a
\* job to fetch take a token for every HTTP call (web.Fetch waits on
\* FetchConfig.RateLimiter before it issues the request).
RateConfigs ==
    { [URL |-> "https://api.test", Authentication |-> "none", DNSList |-> <<>>,
       Requests |-> <<ReqPlain>>,
       RateLimitConfig |-> Ptr(RateLimit(Ptr(burst), Ptr(period))), Truncate |-> FALSE] :
         burst \in 1..MaxBurst, period \in 1..(2 * Second) }

InitRate ==
    /\ cfg \in RateConfigs
    /\ pc = "await"
    /\ rateLimiter = Ptr(NewLimiter(Deref(cfg.RateLimitConfig)))
    /\ RestInit
    /\ now = 0
    /\ tokens = Deref(rateLimiter).burst
    /\ sinceToken = 0
    /\ issuedAt = <<>>

\* One duration unit passes: a bucket that is not full gains a token every
\* `interval` units.
LimiterTick ==
    /\ now < MaxClock
    /\ now' = now + 1
    /\ LET lim == Deref(rateLimiter)
       IN  IF lim.interval = 0 \/ tokens >= lim.burst
           THEN UNCHANGED <<tokens, sinceToken>>
           ELSE IF sinceToken + 1 >= lim.interval
           THEN tokens' = tokens + 1 /\ sinceToken' = 0
           ELSE tokens' = tokens /\ sinceToken' = sinceToken + 1
    /\ UNCHANGED <<orchVars, alive, chanVars, workerVars, txVars, logVars, issuedAt>>
    /\ UNCHANGED ctxVars

\* A web worker's Wait returns and its HTTP call is issued: a limiter of
\* rate.Inf lets every call through, a finite one takes a token.
LimiterFetch ==
    /\ Len(issuedAt) < MaxCalls
    /\ LET lim == Deref(rateLimiter)
       IN  IF lim.interval = 0
           THEN UNCHANGED tokens
           ELSE tokens >= 1 /\ tokens' = tokens - 1
    /\ issuedAt' = Append(issuedAt, now)
    /\ UNCHANGED <<orchVars, alive, chanVars, workerVars, txVars, logVars, now, sinceToken>>
    /\ UNCHANGED ctxVars

NextRate == LimiterTick \/ LimiterFetch

SpecRate == InitRate /\ [][NextRate]_vars

\* Upsert with the scheduling of the Go runtime: a goroutine that can take a
\* step is not left waiting forever, so a run does not stop while some step
\* of Upsert, a worker or a driver is possible.
SpecLive == Spec /\ WF_vars(Next)

\* --------------------------------------------- cancellation specification
\* The caller cancels the context it passed to Upsert while Upsert waits for
\* the completion signals. Upsert and repositoryWorker never read ctx; the
\* web workers hand it to web.Fetch.
Cancel ==
    /\ alive /\ pc = "await" /\ ~cancelled
    /\ cancelled' = TRUE
    /\ UNCHANGED <<orchVars, alive, chanVars, workerVars, txVars, logVars, limiterVars, cfg0,
                   earlier>>

NextCancel == Next \/ Cancel

SpecCancel == Init /\ [][NextCancel]_vars

\* ----------------------------------------------- transaction specification
\* One storage.Txn and a client that sends it up to MaxOps functions and
\* then calls Commit or Rollback, with the transaction's driver loop.
TxnConfigs ==
    { [URL |-> "https://api.test", Authentication |-> "none", DNSList |-> <<1>>,
       Requests |-> <<>>, RateLimitConfig |-> ValidRateLimit, Truncate |-> FALSE] }

InitTxn ==
    /\ cfg \in TxnConfigs
    /\ pc = "open"
    /\ ret = NotReturned /\ alive = TRUE /\ i = 1
    /\ client = Null /\ newClientCalls = 0
    /\ repos = <<1>>
    /\ rateLimiter = Null
    /\ flattenedRequests = <<>> /\ truncateTables = <<>>
    /\ truncated = [b \in Backends |-> <<>>]
    /\ started = FALSE
    /\ webWorkerJobs = <<>> /\ repoJobCh = <<>> /\ done = <<>>
    /\ web = [w \in Workers |-> [pc |-> "idle", job |-> 0]]
    /\ repo = [w \in Workers |-> [pc |-> "idle", job |-> 0, k |-> 0]]
    /\ tx = [b \in Backends |-> OpenTxn]
    /\ driver = [b \in Backends |-> "run"]
    /\ fetchCalls = <<>> /\ responses = <<>> /\ encoded = <<>> /\ signalled = <<>>
    /\ submitted = [b \in Backends |-> <<>>]
    /\ executed = [b \in Backends |-> <<>>]
    /\ commitCalls = [b \in Backends |-> 0]
    /\ rollbackCalls = [b \in Backends |-> 0]
    /\ now = 0 /\ tokens = 0 /\ sinceToken = 0 /\ issuedAt = <<>>
    /\ cfg0 = cfg
    /\ cancelled = FALSE
    /\ earlier = Null

\* What the client's variables besides pc and ret keep.
clientRest == <<cfg, i, client, newClientCalls, repos, rateLimiter, flattenedRequests,
                truncateTables, truncated, started>>

\* Txn.Send(fn): txn.ch <- fn
TxnSend(b) ==
    /\ alive /\ pc = "open"
    /\ Len(submitted[b]) < MaxOps
    /\ Len(tx[b].ch) < TxChCap
    /\ \E fn \in 1..MaxOps :
          /\ tx' = [tx EXCEPT ![b].ch = Send(@, fn)]
          /\ submitted' = [submitted EXCEPT ![b] = Append(@, fn)]
    /\ UNCHANGED <<orchVars, alive, chanVars, workerVars, driver, commitCalls, rollbackCalls,
                   fetchCalls, responses, encoded, signalled, executed>>
    /\ UNCHANGED limiterVars
    /\ UNCHANGED ctxVars

\* Txn.Commit: close(txn.ch)
TxnCommitClose(b) ==
    /\ alive /\ pc = "open"
    /\ tx' = [tx EXCEPT ![b].closed = TRUE, ![b].state = "closing"]
    /\ commitCalls' = [commitCalls EXCEPT ![b] = @ + 1]
    /\ pc' = "commit.signal"
    /\ UNCHANGED <<ret, clientRest>>
    /\ UNCHANGED <<alive, chanVars, workerVars, driver, rollbackCalls, logVars>>
    /\ UNCHANGED limiterVars
    /\ UNCHANGED ctxVars

\* Txn.Rollback: close(txn.ch)
TxnRollbackClose(b) ==
    /\ alive /\ pc = "open"
    /\ tx' = [tx EXCEPT ![b].closed = TRUE, ![b].state = "closing"]
    /\ rollbackCalls' = [rollbackCalls EXCEPT ![b] = @ + 1]
    /\ pc' = "rollback.signal"
    /\ UNCHANGED <<ret, clientRest>>
    /\ UNCHANGED <<alive, chanVars, workerVars, driver, commitCalls, logVars>>
    /\ UNCHANGED limiterVars
    /\ UNCHANGED ctxVars

\* The value Commit puts on txn.commit.
commitValue == TRUE

\* Rollback signalling a commit.
rollbackValueTrue == TRUE

\* The value Rollback puts on txn.commit.
rollbackValue == FALSE

\* Txn.Commit: txn.commit <- true
TxnCommitSignal(b) ==
    /\ alive /\ pc = "commit.signal"
    /\ tx[b].commit = <<>>
    /\ tx' = [tx EXCEPT ![b].commit = <<commitValue>>]
    /\ pc' = "wait"
    /\ UNCHANGED <<ret, clientRest>>
    /\ UNCHANGED <<alive, chanVars, workerVars, driver, commitCalls, rollbackCalls, logVars>>
    /\ UNCHANGED limiterVars
    /\ UNCHANGED ctxVars

\* Txn.Rollback: txn.commit <- false
TxnRollbackSignal(b) ==
    /\ alive /\ pc = "rollback.signal"
    /\ tx[b].commit = <<>>
    /\ tx' = [tx EXCEPT ![b].commit = <<rollbackValue>>]
    /\ pc' = "wait"
    /\ UNCHANGED <<ret, clientRest>>
    /\ UNCHANGED <<alive, chanVars, workerVars, driver, commitCalls, rollbackCalls, logVars>>
    /\ UNCHANGED limiterVars
    /\ UNCHANGED ctxVars

\* Commit or Rollback returning nil whatever the driver posted.
txnReturnNil(status) == NoErr

\* return <-txn.done
txnReturn(status) == status

\* Txn.Commit and Txn.Rollback: return <-txn.done
TxnReturn(b) ==
    /\ alive /\ pc = "wait"
    /\ tx[b].done # <<>>
    /\ ret' = txnReturn(Head(tx[b].done))
    /\ tx' = [tx EXCEPT ![b].done = <<>>]
    /\ pc' = "returned"
    /\ UNCHANGED clientRest
    /\ UNCHANGED <<alive, chanVars, workerVars, driver, commitCalls, rollbackCalls, logVars>>
    /\ UNCHANGED limiterVars
    /\ UNCHANGED ctxVars

NextTxn ==
    \/ \E b \in Backends : TxnSend(b)
    \/ \E b \in Backends : TxnCommitClose(b)
    \/ \E b \in Backends : TxnRollbackClose(b)
    \/ \E b \in Backends : TxnCommitSignal(b)
    \/ \E b \in Backends : TxnRollbackSignal(b)
    \/ \E b \in Backends : TxnReturn(b)
    \/ \E b \in Backends : DriverExec(b)
    \/ \E b \in Backends : DriverClosed(b)
    \/ \E b \in Backends : DriverFinalize(b)

SpecTxn == InitTxn /\ [][NextTxn]_vars

\* =================================================================== claims
Count(seq, x) == Cardinality({k \in 1..Len(seq) : seq[k] = x})

RECURSIVE IsSubseq(_, _)
\* s is a subsequence of t, in t's order.
IsSubseq(s, t) ==
    IF s = <<>> THEN TRUE
    ELSE IF t = <<>> THEN FALSE
    ELSE IF Head(s) = Head(t) THEN IsSubseq(Tail(s), Tail(t))
    ELSE IsSubseq(s, Tail(t))

\* Every flattened request was fetched and produced a response.
AllFetched == \A j \in Jobs : j \in DOMAIN responses /\ responses[j] >= 1
\* Commit returned success on every backend of dnsList.
AllCommitted == \A b \in Backends : tx[b].state = "committed"
\* No client connected, no transaction opened, no worker started, no fetch.
NoSideEffects ==
    /\ newClientCalls = 0 /\ client = Null
    /\ \A b \in Backends : ~tx[b].opened
    /\ ~started
    /\ fetchCalls = <<>> /\ issuedAt = <<>>

\* C1 (as stated): whenever Upsert has returned, its return value is nil if
\* and only if every flattened request was fetched and produced a response
\* and Commit returned success on every backend of dnsList.
C1_NilIffFetchedAndCommitted ==
    pc = "returned" => (ret = NoErr <=> (AllFetched /\ AllCommitted))

\* C1 (amended): whenever Upsert has returned, its return value is nil if
\* and only if it got as far as starting its worker pools (validation,
\* connection, opening the backends, planning and truncation succeeded),
\* every flattened request was fetched and produced a response, and Commit
\* returned success on every backend of dnsList.
C1_NilIffStartedFetchedAndCommitted ==
    pc = "returned" => (ret = NoErr <=> (started /\ AllFetched /\ AllCommitted))

C1_Witness ==
    /\ pc = "returned" /\ ret = NoErr
    /\ Len(flattenedRequests) = 2 /\ Len(cfg.DNSList) = 2
    /\ AllFetched /\ AllCommitted

\* C2: on every backend the jobs executed on the session are a subsequence,
\* in submission order, of the jobs sent on that backend's transaction,
\* whichever workers sent them.
C2_ExecutedInSubmissionOrder ==
    \A b \in Backends : IsSubseq(executed[b], submitted[b])

C2_Witness ==
    \E b \in Backends :
        /\ submitted[b] = <<2, 1>> /\ executed[b] = <<2, 1>>
        /\ \E c \in Backends : submitted[c] = <<1, 2>>

\* C3: in a run that returned nil every flattened request was fetched once,
\* encoded once, submitted once to each backend and signalled once on done,
\* and every backend was committed once; and at any time a request
\* signalled on done has been submitted to every backend.
C3_ExactlyOnce ==
    /\ (pc = "returned" /\ ret = NoErr) =>
          /\ \A j \in Jobs :
                /\ fetchCalls[j] = 1 /\ responses[j] = 1
                /\ encoded[j] = 1 /\ signalled[j] = 1
                /\ \A b \in Backends : Count(submitted[b], j) = 1
          /\ \A b \in Backends : commitCalls[b] = 1 /\ Len(submitted[b]) = Len(flattenedRequests)
    /\ \A j \in DOMAIN signalled :
          signalled[j] >= 1 =>
              signalled[j] = 1 /\ \A b \in Backends : Count(submitted[b], j) = 1

C3_Witness ==
    /\ pc = "returned" /\ ret = NoErr
    /\ Len(flattenedRequests) = 2 /\ Len(repos) = 2
    /\ \A j \in Jobs : signalled[j] = 1
    /\ \E b \in Backends : submitted[b] = <<2, 1>>

\* C4: whenever Upsert has returned, every transaction it opened has been
\* terminated by exactly one Commit or Rollback and is committed or rolled
\* back: none is left open.
C4_EveryTxnTerminated ==
    pc = "returned" =>
        \A b \in Backends :
            tx[b].opened =>
                /\ commitCalls[b] + rollbackCalls[b] = 1
                /\ tx[b].state \in {"committed", "rolledBack"}

\* C5: Commit is called on the backends in dnsList order, each only after
\* the one before it has committed; once the commit of backend k has
\* failed, Upsert returns the error wrapping that failure, the backends
\* before k are committed and no backend after k has been committed.
C5_CommitInOrderFirstFailureAborts ==
    /\ \A a, b \in 1..Len(repos) :
          (a < b /\ commitCalls[repos[b]] >= 1) => tx[repos[a]].state = "committed"
    /\ \A k \in 1..Len(repos) :
          tx[repos[k]].state = "commitFailed" =>
              /\ \/ pc = "commitWait" /\ i = k
                 \/ /\ pc = "returned"
                    /\ ret = Err("unable to commit transaction", CommitFailure(repos[k]).cause)
              /\ \A a \in 1..(k - 1) : tx[repos[a]].state = "committed"
              /\ \A b \in (k + 1)..Len(repos) :
                    commitCalls[repos[b]] = 0 /\ tx[repos[b]].state = "open"

C5_Witness ==
    /\ pc = "returned"
    /\ Len(repos) = 2
    /\ tx[repos[1]].state = "committed" /\ tx[repos[2]].state = "commitFailed"
    /\ ret = Err("unable to commit transaction", CommitFailure(repos[2]).cause)

\* C6: with no rateLimit in the config, once validation has run Upsert has
\* returned MissingConfigField("rateLimit") and nothing else has happened.
C6_MissingRateLimit ==
    (IsNil(cfg.RateLimitConfig) /\ pc # "validate") =>
        /\ pc = "returned"
        /\ ret = MissingConfigFieldError("rateLimit")
        /\ NoSideEffects

C6_Witness == IsNil(cfg.RateLimitConfig) /\ pc = "returned" /\ Len(cfg.DNSList) = 1

\* A rate limit that is present but invalid: burst or period missing or not > 0.
InvalidRateLimit(c) ==
    /\ ~IsNil(c.RateLimitConfig)
    /\ LET rl == Deref(c.RateLimitConfig)
       IN  \/ IsNil(rl.Burst) \/ IsNil(rl.Period)
           \/ Deref(rl.Burst) <= 0 \/ Deref(rl.Period) <= 0

\* C7: with a rateLimit that is present but invalid, once validation has run
\* Upsert has returned InvalidRateLimit and nothing else has happened.
C7_InvalidRateLimitFailsClosed ==
    (InvalidRateLimit(cfg) /\ pc # "validate") =>
        /\ pc = "returned"
        /\ ret = ErrInvalidRateLimit
        /\ NoSideEffects

\* HTTP calls issued in the window [t, t + T).
CallsIn(t, T) ==
    Cardinality({k \in 1..Len(issuedAt) : t <= issuedAt[k] /\ issuedAt[k] < t + T})
Ceil(a, b) == (a + b - 1) \div b

\* C8: in every window of length T the number of HTTP calls issued is at
\* most burst * ceil(T / period) + burst.
C8_CallsWithinBudget ==
    LET rl == Deref(cfg.RateLimitConfig)
        burst == Deref(rl.Burst)
        period == Deref(rl.Period)
    IN  \A t \in 0..MaxClock, T \in 1..(MaxClock + 1) :
            CallsIn(t, T) <= burst * Ceil(T, period) + burst

\* The window of the planner specification's request.
WindowStart == Deref(cfg0.Requests[1].Query)[StartName].t
WindowEnd == Deref(cfg0.Requests[1].Query)[EndName].t
PlannedChunks == Deref(cfg.Requests[1].Timeseries).chunks
PlannedPeriod == Deref(cfg.Requests[1].Timeseries).Period

\* C9: for start < end the chunks computed are contiguous and increasing,
\* begin at start and end at end, all but the last have length period, the
\* last has length at most period, and a period not shorter than the window
\* gives the single chunk [start, end].
C9_ChunksPartitionWindow ==
    (i > 1 /\ WindowStart < WindowEnd) =>
        LET ch == PlannedChunks
            n == Len(ch)
        IN  /\ n >= 1
            /\ ch[1][1] = WindowStart
            /\ ch[n][2] = WindowEnd
            /\ \A k \in 1..n : ch[k][1] < ch[k][2]
            /\ \A k \in 1..(n - 1) :
                  ch[k][2] = ch[k + 1][1] /\ ch[k][2] - ch[k][1] = PlannedPeriod
            /\ ch[n][2] - ch[n][1] <= PlannedPeriod
            /\ PlannedPeriod >= WindowEnd - WindowStart
                  => ch = <<(<<WindowStart, WindowEnd>>)>>

C9_Witness ==
    /\ i > 1 /\ WindowStart = 0 /\ WindowEnd = 3 /\ PlannedPeriod = 2
    /\ PlannedChunks = << <<0, 2>>, <<2, 3>> >>

\* C10: with truncate configured, once the pools are started or an upsert
\* has been submitted every backend has been truncated; and a failed
\* truncate has made Upsert return with no worker started and no fetch issued.
C10_TruncateBeforeUpserts ==
    cfg.Truncate =>
        /\ (started \/ \E b \in Backends : submitted[b] # <<>>) =>
               \A b \in Backends : Len(truncated[b]) = 1
        /\ ret.err = "unable to truncate tables" =>
               /\ pc = "returned" /\ ~started
               /\ fetchCalls = <<>> /\ \A b \in Backends : submitted[b] = <<>>

C10_Witness ==
    /\ cfg.Truncate /\ Len(repos) = 2
    /\ \A b \in Backends : Len(truncated[b]) = 1 /\ Len(submitted[b]) = 2

\* The table names the requests of the caller's configuration refer to.
ReferencedTables ==
    { Deref(cfg0.Requests[r].Table) :
        r \in { q \in 1..Len(cfg0.Requests) : ~IsNil(cfg0.Requests[q].Table) } }

\* C11: with truncate set, every table a request refers to is truncated
\* exactly once on each backend: a backend's Truncate is called at most once,
\* and the table list it is handed holds each referenced table name once,
\* also when several requests name the same table.
C11_TablesTruncatedOnce ==
    cfg.Truncate =>
        \A b \in Backends :
            /\ Len(truncated[b]) <= 1
            /\ \A k \in 1..Len(truncated[b]) :
                  \A t \in ReferencedTables : Count(truncated[b][k], t) = 1

\* Web worker w called web.Fetch for its job and got an error back.
FetchFailed(w) ==
    /\ web[w].pc = "fetch"
    /\ fetchCalls[web[w].job] > responses[web[w].job]

\* C12: when the context is cancelled while Upsert waits for completions,
\* Upsert does not wait forever: as long as it has not returned it can still
\* go on to return, and a worker whose fetch the cancellation aborted has not
\* ended the run.
C12_CancelledUpsertReturns ==
    (cancelled /\ pc # "returned") =>
        \/ ENABLED NextCancel
        \/ ~alive /\ \A w \in Workers : ~FetchFailed(w)

\* Request req of configuration c has a timeseries whose start, as the
\* request's URL gives it, is not written in the timeseries' layout.
UnparsableStart(c, req) ==
    /\ ~IsNil(req.Timeseries)
    /\ newFetchConfig(c, req).err = NoErr
    /\ LET ts == Deref(req.Timeseries)
           layout == IF IsNil(ts.Layout) THEN RFC3339 ELSE Deref(ts.Layout)
           startSlice == Values(Deref(newFetchConfig(c, req).fc).URL, ts.StartName)
       IN  Len(startSlice) = 1 /\ ~ParseOK(layout, startSlice[1])

\* Upsert has built its rate limiter and left the planning loop.
PlanningOver == ~IsNil(rateLimiter) /\ pc # "plan"

\* C13: once Upsert has planned a configuration with a timeseries request
\* whose start cannot be parsed with the layout, it has returned
\* UnableToParse("startTime") (the sentinel ErrUnableToParse with the name
\* startTime, which errors.Is finds in the returned error) and no fetch was
\* issued.
C13_UnparsableStartReported ==
    (PlanningOver /\ \E r \in 1..Len(cfg0.Requests) : UnparsableStart(cfg0, cfg0.Requests[r])) =>
        /\ pc = "returned"
        /\ ret = UnableToParseError("startTime")
        /\ ~started
        /\ \A j \in DOMAIN fetchCalls : fetchCalls[j] = 0

\* Commit or Rollback has been called on some backend's transaction.
SomeTxnEnded == \E b \in Backends : commitCalls[b] + rollbackCalls[b] > 0

\* C14: on each backend's transaction at most one of Commit and Rollback is
\* called, and no Send follows it: when Upsert calls Commit on any backend
\* every repository worker's Send has returned (each flattened request was
\* submitted to every repository and no worker is in or before a Send), so
\* no Send meets a closed submission channel, and no channel is closed twice.
C14_NoSendAfterCommit ==
    /\ \A b \in Backends : commitCalls[b] + rollbackCalls[b] <= 1
    /\ \A b \in Backends : tx[b].closed <=> commitCalls[b] + rollbackCalls[b] = 1
    /\ \A r \in Workers :
          repo[r].pc = "transact" => ~tx[repos[repo[r].k]].closed
    /\ SomeTxnEnded =>
          /\ \A r \in Workers : repo[r].pc = "recv" /\ web[r].pc = "recv"
          /\ webWorkerJobs = <<>> /\ repoJobCh = <<>>
          /\ \A k \in 1..Len(repos) : Len(submitted[repos[k]]) = Len(flattenedRequests)

C14_Witness ==
    /\ Len(repos) = 2 /\ Len(flattenedRequests) = 2
    /\ \A b \in Backends : commitCalls[b] = 1 /\ Len(submitted[b]) = 2
    /\ pc = "returned"

\* The status the driver of backend b posted when it finalized.
FinalStatus(b) == IF tx[b].state = "commitFailed" THEN CommitFailure(b) ELSE NoErr

Terminal == {"committed", "commitFailed", "rolledBack"}

\* C15: Commit (and Rollback) closes the submission channel, then signals
\* commit = true (Rollback: false), then waits for the driver's final status:
\* when it has returned, the driver has taken every function sent before the
\* call from the channel, has finalized, and the value returned is the
\* status the driver posted.
C15_ReturnsAfterDriverFinalized ==
    \A b \in Backends :
        /\ pc \in {"commit.signal", "rollback.signal", "wait", "returned"} => tx[b].closed
        /\ tx[b].commit # <<>> =>
              /\ tx[b].closed
              /\ Head(tx[b].commit) = (commitCalls[b] = 1)
        /\ pc = "returned" =>
              /\ tx[b].ch = <<>> /\ executed[b] = submitted[b]
              /\ driver[b] = "final" /\ tx[b].state \in Terminal
              /\ ret = FinalStatus(b)

C15_Witness ==
    /\ pc = "returned" /\ ret = CommitFailure(1)
    /\ commitCalls[1] = 1 /\ Len(executed[1]) = MaxOps

\* The functions whose effect backend b keeps: those of a committed
\* transaction; an aborted or refused transaction keeps none.
Durable(b) == IF tx[b].state = "committed" THEN executed[b] ELSE <<>>

\* C16: a transaction's state only moves open -> closing -> committed or
\* rolled back: it leaves open only by a call of Commit or Rollback, Commit
\* ends in committed (or a reported failure) and Rollback in rolled back with
\* nothing of the buffered work kept, a terminal state is never left, and no
\* function is executed on the session once a terminal state is reached.
C16_TxnStateMachine ==
    [][\A b \in Backends :
          /\ (tx[b].state = "open" /\ tx'[b].state # "open") =>
                /\ tx'[b].state = "closing"
                /\ commitCalls'[b] + rollbackCalls'[b]
                      = commitCalls[b] + rollbackCalls[b] + 1
          /\ (tx[b].state = "closing" /\ tx'[b].state # "closing") =>
                /\ commitCalls[b] = 1 => tx'[b].state \in {"committed", "commitFailed"}
                /\ rollbackCalls[b] = 1 => tx'[b].state = "rolledBack" /\ Durable(b)' = <<>>
                /\ commitCalls[b] + rollbackCalls[b] = 1
          /\ tx[b].state \in Terminal =>
                tx'[b].state = tx[b].state /\ executed'[b] = executed[b]
      ]_vars

C16_Witness ==
    /\ tx[1].state = "rolledBack" /\ rollbackCalls[1] = 1
    /\ Len(executed[1]) = MaxOps /\ pc = "returned"

\* C17: once the pools are started on channels of capacity len(cfg.Requests),
\* len(flattened) * len(repos) and len(flattened), and as long as no fetch,
\* encode or upsert has failed (none has ended the process), Upsert is never
\* stuck: until it has returned some step of Upsert, a worker or a driver is
\* possible, and when it has returned it has been through the commit loop:
\* it returns nil after a Commit on every repository, or the error of a
\* failed Commit. This for zero requests, for more flattened requests than
\* the web job channel holds, and for zero backends.
C17_NeverStuck ==
    /\ (started /\ alive /\ pc # "returned") => ENABLED Next
    /\ (started /\ pc = "returned") =>
          \/ ret = NoErr /\ \A k \in 1..Len(repos) : commitCalls[repos[k]] = 1
          \/ ret.err = "unable to commit transaction"

\* C17 under fair scheduling: once the pools are started, Upsert returns
\* unless a failed fetch, encode or upsert ends the process.
C17_EventuallyReturns == started ~> (pc = "returned" \/ ~alive)

C17_Witness ==
    /\ pc = "returned" /\ ret = NoErr /\ started
    /\ Len(flattenedRequests) > Len(cfg.Requests)
    /\ webWorkerJobsCap < Len(flattenedRequests)
    /\ Len(repos) = 2

\* C18: the web job channel is closed after the last flattened request is
\* enqueued, and every web worker and repository worker leaves its loop once
\* its inbound channel is closed and drained: when Upsert has returned and
\* the run has come to rest, no worker of the pools it started is still
\* waiting to receive on its inbound channel.
C18_NoWorkerLeftReceiving ==
    (started /\ pc = "returned" /\ ~ENABLED Next) =>
        \A w \in Workers : web[w].pc # "recv" /\ repo[w].pc # "recv"

\* The window of timeseries request req of configuration c, read from the
\* URL the request gives: whether start and end are there once and written
\* in the layout, and the instants they denote.
WindowOf(c, req) ==
    LET ts == Deref(req.Timeseries)
        layout == IF IsNil(ts.Layout) THEN RFC3339 ELSE Deref(ts.Layout)
        url == Deref(newFetchConfig(c, req).fc).URL
        a == Values(url, ts.StartName)
        b == Values(url, ts.EndName)
        ok == /\ Len(a) = 1 /\ Len(b) = 1
              /\ ParseOK(layout, a[1]) /\ ParseOK(layout, b[1])
    IN  [ok |-> ok, start |-> IF ok THEN a[1].t ELSE 0, end |-> IF ok THEN b[1].t ELSE 0,
         period |-> ts.Period]

\* The flattened requests request req stands for: one, or one per chunk of
\* its window, none when start is not before end.
ExpectedCount(c, req) ==
    IF IsNil(req.Timeseries) THEN 1
    ELSE LET w == WindowOf(c, req)
         IN  IF w.start < w.end THEN Ceil(w.end - w.start, w.period) ELSE 0

RECURSIVE ExpectedUpTo(_, _)
\* The flattened requests the first n requests of configuration c stand for.
ExpectedUpTo(c, n) ==
    IF n = 0 THEN 0 ELSE ExpectedUpTo(c, n - 1) + ExpectedCount(c, c.Requests[n])

RECURSIVE SumUpTo(_, _)
SumUpTo(f, n) == IF n = 0 THEN 0 ELSE SumUpTo(f, n - 1) + f[n]

\* Request r of the caller's configuration is a timeseries request with a
\* well-formed window whose start is not before its end.
EmptyWindow(r) ==
    /\ ~IsNil(cfg0.Requests[r].Timeseries)
    /\ URLParses(cfg0.URL)
    /\ WindowOf(cfg0, cfg0.Requests[r]).ok
    /\ WindowOf(cfg0, cfg0.Requests[r]).start >= WindowOf(cfg0, cfg0.Requests[r]).end

\* C19: planning produces as many flattened requests as the requests stand
\* for: one for a request without timeseries, the number of chunks for one
\* with. A timeseries request whose start is not before its end adds none
\* and is no error: planning it neither fails nor ends the process, no
\* fetch is issued for it (a run that returns nil has fetched once per
\* flattened request), and Upsert goes on to commit and return nil.
C19_FlattenedCount ==
    /\ started => Len(flattenedRequests) = ExpectedUpTo(cfg0, Len(cfg0.Requests))
    /\ (\A r \in 1..Len(cfg0.Requests) : EmptyWindow(r) \/ IsNil(cfg0.Requests[r].Timeseries)) =>
          /\ pc = "plan" => alive
          /\ ret \notin {ErrSettingTimeseriesChunks, ErrFetchingTimeseriesChunks}
    /\ (pc = "returned" /\ ret = NoErr) =>
          SumUpTo(fetchCalls, Len(fetchCalls)) = ExpectedUpTo(cfg0, Len(cfg0.Requests))

C19_Witness ==
    /\ Len(cfg0.Requests) = 2 /\ EmptyWindow(1)
    /\ pc = "returned" /\ ret = NoErr
    /\ Len(flattenedRequests) = 1 /\ fetchCalls = <<1>>
    /\ Len(repos) = 2 /\ \A b \in Backends : commitCalls[b] = 1

\* The window a timeseries request is written with: start and end as the
\* request's query mapping gives them or, for a name the mapping does not
\* give, the query parameters of its endpoint.
GivenWindow(req) ==
    LET ts == Deref(req.Timeseries)
        layout == IF IsNil(ts.Layout) THEN RFC3339 ELSE Deref(ts.Layout)
        m == IF IsNil(req.Query) THEN WindowMap(layout, 0, 0) ELSE Deref(req.Query)
        given(n) == IF ~IsNil(req.Query) /\ n \in DOMAIN m THEN <<m[n]>>
                    ELSE Values(req.Endpoint, n)
        a == given(ts.StartName)
        b == given(ts.EndName)
    IN  /\ Len(a) = 1 /\ Len(b) = 1
        /\ ParseOK(layout, a[1]) /\ ParseOK(layout, b[1])

\* Every timeseries request of the caller's configuration is written with a
\* well-formed window.
WindowsWellFormed ==
    /\ URLParses(cfg0.URL)
    /\ \A r \in 1..Len(cfg0.Requests) :
          IsNil(cfg0.Requests[r].Timeseries) \/ GivenWindow(cfg0.Requests[r])

\* The k-th chunk of window w: [start + (k-1) * period, start + k * period],
\* cut at end.
ChunkOf(w, k) ==
    LET a == w.start + (k - 1) * w.period
        b == w.start + k * w.period
    IN  <<a, IF b < w.end THEN b ELSE w.end>>

\* The flattened requests of the timeseries requests carry their own chunk.
FlattenedCarryChunks ==
    \A r \in 1..Len(cfg0.Requests) :
        ~IsNil(cfg0.Requests[r].Timeseries) =>
            LET req == cfg0.Requests[r]
                ts == Deref(req.Timeseries)
                layout == IF IsNil(ts.Layout) THEN RFC3339 ELSE Deref(ts.Layout)
                w == WindowOf(cfg0, req)
            IN  \A k \in 1..ExpectedCount(cfg0, req) :
                    LET url == flattenedRequests[ExpectedUpTo(cfg0, r - 1) + k].fetchConfig.URL
                    IN  /\ url[ts.StartName] = <<Format(layout, ChunkOf(w, k)[1])>>
                        /\ url[ts.EndName] = <<Format(layout, ChunkOf(w, k)[2])>>

\* C20: the flattened requests of a timeseries request are independent: after
\* planning the k-th of them carries in its URL query the start and end of
\* the k-th chunk, written in the layout, whatever was written for later
\* chunks; this also for a request without query mapping of its own, whose
\* start and end are in the endpoint only: planning such a request goes
\* through like any other.
C20_ChunkRequestsIndependent ==
    /\ started => FlattenedCarryChunks
    /\ WindowsWellFormed =>
          /\ pc = "plan" => alive
          /\ ret \notin {ErrSettingTimeseriesChunks, ErrFetchingTimeseriesChunks}

\* The chunks of the window [a, b] under period p, by their bounds.
ChunksOfWindow(a, b, p) ==
    [k \in 1..(IF a < b THEN Ceil(b - a, p) ELSE 0) |->
        ChunkOf([start |-> a, end |-> b, period |-> p], k)]

\* C21: planning is pure and repeatable. Once a planning pass over the
\* Config is over, the timeseries holds the chunks of (start, end, period)
\* and no others, the request's query mapping holds the start and end the
\* caller gave it, and a second pass over the same Config has produced the
\* flattened requests of the first.
C21_PlanningRepeatable ==
    pc = "start" =>
        /\ PlannedChunks = ChunksOfWindow(WindowStart, WindowEnd, PlannedPeriod)
        /\ Deref(cfg.Requests[1].Query) = Deref(cfg0.Requests[1].Query)
        /\ ~IsNil(earlier) => flattenedRequests = Deref(earlier)

====
